---- MODULE Spec2Model ----
(***************************************************************************)
(* A model of the GeoTag-X project template builder:                       *)
(*   - src/question.py : the Question class (construction, the five        *)
(*     validators, the default-parameter table and getparameters);         *)
(*   - src/helper.py   : generate_html.                                    *)
(*                                                                         *)
(* Python values are tagged records: None, S(s) for a str, I(n) for an     *)
(* int, L(seq) for a list, D(f) for a dict held by value (f a function     *)
(* from key values to values) and Ref(a) for a dict object that is shared  *)
(* by reference (objs[a] is its content).                                  *)
(*                                                                         *)
(* A str is the sequence of its tokens: every maximal run of word          *)
(* characters [A-Za-z0-9_] is one token ("select", "q1") and every other   *)
(* character is a token of its own (" ", "-", "!").  Two strings are equal *)
(* exactly when their token sequences are, and strip, len(s) < 1 and the   *)
(* match of [\w-]* are computed on the tokens.                             *)
(***************************************************************************)
EXTENDS Integers, Sequences, FiniteSets, TLC

VARIABLES
  default_parameters, \* Question.__default_parameters: type -> its top-level dict
  objs,               \* the dict objects nested in the table or owned by callers
  q_key,              \* Question(key, entry): the key argument
  q_entry,            \* Question(key, entry): the entry argument
  q_self,             \* the fields of the Question object under construction
  q_result,           \* how the constructor ended
  p_results,          \* the mappings getparameters returned, as the callers hold them
  p_expected,         \* what each caller last saw or wrote in its own mapping
  p_last,             \* the last getparameters call and how it ended
  p_mutations,        \* how many times callers have written into their mappings
  h_cfg,              \* the caller's configuration_set
  h_project,          \* the dict object that was configuration_set["project"] at the last call
  h_fs,               \* the files template.html, tutorial.html, results.html at the path
  h_dir,              \* whether the path is a writable directory
  h_call              \* the last generate_html call: arguments, state before, outcome

vars == <<default_parameters, objs, q_key, q_entry, q_self, q_result,
          p_results, p_expected, p_last, p_mutations, h_cfg, h_project, h_fs, h_dir, h_call>>

q_vars == <<q_key, q_entry, q_self, q_result>>

p_vars == <<p_results, p_expected, p_last, p_mutations>>

h_vars == <<h_cfg, h_project, h_fs, h_dir, h_call>>

-----------------------------------------------------------------------------
(* Python values *)

None == [t |-> "None"]

S(s) == [t |-> "str", s |-> s]

I(n) == [t |-> "int", n |-> n]

L(seq) == [t |-> "list", l |-> seq]

D(f) == [t |-> "dict", d |-> f]

Ref(a) == [t |-> "ref", a |-> a]

EmptyDict == D(<<>>)

\* isinstance(v, basestring)
IsStr(v) == v.t = "str"

\* isinstance(v, dict)
IsDict(v) == v.t \in {"dict", "ref"}

\* dict.get(k): the value, or None when the key is absent
Get(d, k) == IF k \in DOMAIN d THEN d[k] ELSE None

\* d[k] = v
Put(d, k, v) == [x \in (DOMAIN d) \cup {k} |-> IF x = k THEN v ELSE d[x]]

\* The content of a dict value, through the reference when it is a shared object.
Content(v) == IF v.t = "ref" THEN objs[v.a] ELSE v.d

\* A value with the shared object it refers to replaced by its content in heap.
DeepIn(heap, v) == IF v.t = "ref" THEN D(heap[v.a]) ELSE v

\* A dict's content with its values made deep.
DeepDictIn(heap, f) == [k \in DOMAIN f |-> DeepIn(heap, f[k])]

DeepDict(f) == DeepDictIn(objs, f)

Return(v) == [raised |-> FALSE, value |-> v]

Raise(e) == [raised |-> TRUE, exc |-> e]

-----------------------------------------------------------------------------
(* The string literals of the source, token by token *)

Lit ==
  [
    binary |-> <<"binary">>,
    dropdown_list |-> <<"dropdown", "-", "list">>,
    select |-> <<"select">>,
    checklist |-> <<"checklist">>,
    illustrative_checklist |-> <<"illustrative", "-", "checklist">>,
    text |-> <<"text">>,
    longtext |-> <<"longtext">>,
    number |-> <<"number">>,
    datetime |-> <<"datetime">>,
    date |-> <<"date">>,
    url |-> <<"url">>,
    geotagging |-> <<"geotagging">>,
    custom |-> <<"custom">>,
    single_choice |-> <<"single_choice">>,
    multiple_choice |-> <<"multiple_choice">>,
    illustrated_multiple_choice |-> <<"illustrated_multiple_choice">>,
    textinput |-> <<"textinput">>,
    textarea |-> <<"textarea">>,
    end |-> <<"end">>,
    photoAccessible |-> <<"photoAccessible">>,
    photoVisible |-> <<"photoVisible">>,
    options |-> <<"options">>,
    prompt |-> <<"prompt">>,
    size |-> <<"size">>,
    placeholder |-> <<"placeholder">>,
    maxlength |-> <<"maxlength">>,
    min |-> <<"min">>,
    max |-> <<"max">>,
    mindate |-> <<"mindate">>,
    maxdate |-> <<"maxdate">>,
    mintime |-> <<"mintime">>,
    maxtime |-> <<"maxtime">>,
    location |-> <<"location">>,
    en |-> <<"en">>,
    please_select |-> <<"Please", " ", "select", " ", "an", " ", "option">>,
    please_number |-> <<"Please", " ", "enter", " ", "a", " ", "number">>,
    please_url |-> <<"Please", " ", "enter", " ", "a", " ", "URL", " ", "e", ".", "g", ".", " ", "http", ":", "/", "/", "www", ".", "example", ".", "com">>,
    type |-> <<"type">>,
    question |-> <<"question">>,
    hint |-> <<"hint">>,
    parameters |-> <<"parameters">>
  ]

-----------------------------------------------------------------------------
(* Characters *)

\* The whitespace str.strip() removes (the vertical tab has no TLA+ escape).
Whitespace == {" ", "\t", "\n", "\r", "\f"}

\* The characters of the model's strings that are neither whitespace nor
\* word characters.
Punctuation == {"-", "!", ".", ":", "/"}

\* A token of word characters: \w+ of Python 2's re with neither LOCALE nor
\* UNICODE set, that is [a-zA-Z0-9_]+.
IsWord(token) == token \notin Whitespace \cup Punctuation

\* No two word tokens are adjacent: the sequence is the tokens of a string.
IsTokenized(s) ==
  \A i \in 1..(Len(s) - 1) : ~(IsWord(s[i]) /\ IsWord(s[i + 1]))

RECURSIVE lstrip(_)
lstrip(s) ==
  IF s # <<>> /\ Head(s) \in Whitespace THEN lstrip(Tail(s)) ELSE s

RECURSIVE rstrip(_)
rstrip(s) ==
  IF s # <<>> /\ s[Len(s)] \in Whitespace
  THEN rstrip(SubSeq(s, 1, Len(s) - 1))
  ELSE s

\* str.strip()
strip(s) == rstrip(lstrip(s))

-----------------------------------------------------------------------------
(* Question.__default_parameters *)

\* The address of the dict object nested under key k of type ty's defaults.
DefaultAddr(ty, k) == [owner |-> "default", type |-> ty, key |-> k]

\* The nested dict objects of the table, as the class body creates them.
InitialObjs ==
  (DefaultAddr(Lit.dropdown_list, Lit.prompt) :> (S(Lit.en) :> S(Lit.please_select)))
  @@ (DefaultAddr(Lit.number, Lit.placeholder) :> (S(Lit.en) :> S(Lit.please_number)))
  @@ (DefaultAddr(Lit.url, Lit.placeholder) :> (S(Lit.en) :> S(Lit.please_url)))

\* The table as the class body creates it: twelve types, "custom" not among them.
InitialDefaultParameters ==
  (S(Lit.binary) :> <<>>)
  @@ (S(Lit.dropdown_list) :>
        (S(Lit.options) :> None
         @@ S(Lit.prompt) :> Ref(DefaultAddr(Lit.dropdown_list, Lit.prompt))
         @@ S(Lit.size) :> I(1)))
  @@ (S(Lit.select) :> (S(Lit.options) :> None @@ S(Lit.size) :> I(8)))
  @@ (S(Lit.checklist) :> (S(Lit.options) :> None @@ S(Lit.size) :> I(8)))
  @@ (S(Lit.illustrative_checklist) :> (S(Lit.options) :> None))
  @@ (S(Lit.text) :> (S(Lit.placeholder) :> None @@ S(Lit.maxlength) :> I(128)))
  @@ (S(Lit.longtext) :> (S(Lit.placeholder) :> None @@ S(Lit.maxlength) :> I(512)))
  @@ (S(Lit.number) :>
        (S(Lit.placeholder) :> Ref(DefaultAddr(Lit.number, Lit.placeholder))
         @@ S(Lit.min) :> None
         @@ S(Lit.max) :> None
         @@ S(Lit.maxlength) :> I(256)))
  @@ (S(Lit.datetime) :>
        (S(Lit.mindate) :> None @@ S(Lit.maxdate) :> None
         @@ S(Lit.mintime) :> None @@ S(Lit.maxtime) :> None))
  @@ (S(Lit.date) :> (S(Lit.min) :> None @@ S(Lit.max) :> None))
  @@ (S(Lit.url) :>
        (S(Lit.placeholder) :> Ref(DefaultAddr(Lit.url, Lit.placeholder))
         @@ S(Lit.maxlength) :> I(2000)))
  @@ (S(Lit.geotagging) :> (S(Lit.location) :> None))

\* The table with every nested object replaced by its present content.
DeepTable ==
  [ty \in DOMAIN default_parameters |-> DeepDict(default_parameters[ty])]

\* The table's value when the class body has run.
InitialDeepTable ==
  [ty \in DOMAIN InitialDefaultParameters |->
     [k \in DOMAIN InitialDefaultParameters[ty] |->
        LET v == InitialDefaultParameters[ty][k]
        IN  IF v.t = "ref" THEN D(InitialObjs[v.a]) ELSE v]]

-----------------------------------------------------------------------------
(* Question.getparameters *)

KeyError(k) == [exc |-> "KeyError", key |-> k]

TypeError == [exc |-> "TypeError"]

IndexError == [exc |-> "IndexError"]

\* l[k] for a list l: k must be an int within [-len, len).
ListItem(l, k) ==
  IF k.t # "int" THEN Raise(TypeError)
  ELSE IF k.n >= Len(l) \/ k.n < 0 - Len(l) THEN Raise(IndexError)
  ELSE IF k.n >= 0 THEN Return(l[k.n + 1])
  ELSE Return(l[Len(l) + k.n + 1])

\* defaults[k]
Subscript(defaults, k) ==
  IF IsDict(defaults)
  THEN (IF k \in DOMAIN Content(defaults)
        THEN Return(Content(defaults)[k])
        ELSE Raise(KeyError(k)))
  ELSE IF defaults.t = "list" THEN ListItem(defaults.l, k)
  ELSE Raise(TypeError)

\* for k in defaults: what the iteration yields, in order.
Iterate(defaults) ==
  IF IsDict(defaults)
  THEN LET ks == DOMAIN Content(defaults)
           \* a dict's keys are distinct: their order does not change the merge
           order == CHOOSE o \in [1..Cardinality(ks) -> ks] :
                      \A i, j \in 1..Cardinality(ks) : i # j => o[i] # o[j]
       IN  Return(order)
  ELSE IF defaults.t = "list" THEN Return(defaults.l)
  ELSE IF defaults.t = "str"
  THEN \* the items are strings (here one per token), which no str accepts as index
       Return([i \in 1..Len(defaults.s) |-> S(<<defaults.s[i]>>)])
  ELSE Raise(TypeError)

\* [k for k in defaults if defaults[k] is not None], from the i-th item on
RECURSIVE Comprehension(_, _, _)
Comprehension(defaults, items, i) ==
  IF i > Len(items) THEN Return(<<>>)
  ELSE LET v == Subscript(defaults, items[i])
       IN  IF v.raised THEN v
           ELSE LET rest == Comprehension(defaults, items, i + 1)
                IN  IF rest.raised THEN rest
                    ELSE IF v.value # None
                         THEN Return(<<items[i]>> \o rest.value)
                         ELSE rest

\* parameters[key] = defaults[key] for each key of keys, from the i-th on
RECURSIVE Assign(_, _, _, _)
Assign(parameters, defaults, keys, i) ==
  IF i > Len(keys) THEN parameters
  ELSE Assign(Put(parameters, keys[i], Subscript(defaults, keys[i]).value),
              defaults, keys, i + 1)

\* Question.__default_parameters[type].copy(): a new dict with the same values,
\* the nested dict objects included (a shallow copy).
CopyOfDefaults(type) == default_parameters[type]

getparameters(type, defaults) ==
  IF type \notin DOMAIN default_parameters THEN Raise(KeyError(type))
  ELSE LET parameters == CopyOfDefaults(type)
       IN  IF defaults = None THEN Return(D(parameters))
           ELSE LET items == Iterate(defaults)
                IN  IF items.raised THEN items
                    ELSE LET keys == Comprehension(defaults, items.value, 1)
                         IN  IF keys.raised THEN keys
                             ELSE Return(D(Assign(parameters, defaults, keys.value, 1)))

-----------------------------------------------------------------------------
(* src.i18n, which the repository imports and the sources at hand do not hold *)

\* i18nify(raw): a missing field is None, a bare string is tagged "en",
\* anything else passes through unchanged.
i18nify(raw) ==
  IF raw = None THEN None
  ELSE IF IsStr(raw) THEN D(S(Lit.en) :> raw)
  ELSE raw

\* isi18nified(value, validator): results[k] is the validator's answer for the
\* value at key k.  None is valid; a mapping is valid when every key is a
\* string and every value passes; any other shape is not.
isi18nified(value, results) ==
  IF value = None THEN [valid |-> TRUE, message |-> None]
  ELSE IF ~IsDict(value)
  THEN [valid |-> FALSE, message |-> [id |-> "i18n-shape"]]
  ELSE IF \E k \in DOMAIN Content(value) : ~IsStr(k)
  THEN [valid |-> FALSE, message |-> [id |-> "i18n-language-code"]]
  ELSE IF \E k \in DOMAIN Content(value) : ~results[k].valid
  THEN results[CHOOSE k \in DOMAIN Content(value) : ~results[k].valid]
  ELSE [valid |-> TRUE, message |-> None]

-----------------------------------------------------------------------------
(* The validators of Question *)

Valid == [valid |-> TRUE, message |-> None]

Invalid(m) == [valid |-> FALSE, message |-> m]

isreservedkey(key) ==
  key \in {S(Lit.end), S(Lit.photoAccessible), S(Lit.photoVisible)}

\* match(r"[\w-]*", key).group(): the longest prefix of word characters and hyphens
RECURSIVE MatchWordOrHyphen(_)
MatchWordOrHyphen(s) ==
  IF s = <<>> THEN <<>>
  ELSE IF IsWord(Head(s)) \/ Head(s) = "-"
  THEN <<Head(s)>> \o MatchWordOrHyphen(Tail(s))
  ELSE <<>>

iskey(key) ==
  IF ~IsStr(key) THEN Invalid([id |-> "key-not-a-non-empty-string"])
  ELSE IF Len(key.s) < 1 THEN Invalid([id |-> "key-not-a-non-empty-string"])
  ELSE IF MatchWordOrHyphen(key.s) # key.s
  THEN Invalid([id |-> "key-illegal-character", key |-> key])
  ELSE IF isreservedkey(key)
  THEN Invalid([id |-> "key-reserved", key |-> key])
  ELSE Valid

types ==
  {S(Lit.binary), S(Lit.dropdown_list), S(Lit.select), S(Lit.checklist),
   S(Lit.illustrative_checklist), S(Lit.text), S(Lit.longtext), S(Lit.number),
   S(Lit.datetime), S(Lit.date), S(Lit.url), S(Lit.geotagging), S(Lit.custom)}

deprecated ==
  (S(Lit.single_choice) :> S(Lit.select))
  @@ (S(Lit.multiple_choice) :> S(Lit.checklist))
  @@ (S(Lit.illustrated_multiple_choice) :> S(Lit.illustrative_checklist))
  @@ (S(Lit.textinput) :> S(Lit.text))
  @@ (S(Lit.textarea) :> S(Lit.longtext))

istype(type) ==
  IF type \notin types
  THEN IF type \in DOMAIN deprecated
       THEN Invalid([id |-> "type-deprecated", type |-> type,
                     replacement |-> deprecated[type]])
       ELSE Invalid([id |-> "type-not-recognized", type |-> type])
  ELSE Valid

\* The inner isvalid of isquestion: a string that is not blank.
isnonemptystring(input) ==
  IF IsStr(input)
  THEN IF Len(strip(input.s)) = 0
       THEN Invalid([id |-> "string-empty"])
       ELSE Valid
  ELSE Invalid([id |-> "not-a-string"])

isquestion(question) ==
  isi18nified(question,
              IF IsDict(question)
              THEN [k \in DOMAIN Content(question) |->
                      isnonemptystring(Content(question)[k])]
              ELSE <<>>)

ishint(hint) == IF hint = None THEN Valid ELSE isquestion(hint)

isparameters(parameters) ==
  IF parameters = None \/ IsDict(parameters)
  THEN Valid
  ELSE Invalid([id |-> "parameters-not-a-dictionary"])

\* The keys of the validations dict of Question.isvalid.
Validators == {"iskey", "istype", "isquestion", "ishint", "isparameters"}

\* validations.items(): the dict is keyed by function objects, which hash by
\* address, so the order of the five items is whatever the run's memory
\* layout makes it.
ValidationOrders ==
  {o \in [1..5 -> Validators] : \A i, j \in 1..5 : i # j => o[i] # o[j]}

\* validator(value) for one item of the validations dict
Validate(validator, question) ==
  CASE validator = "iskey" -> iskey(question.key)
    [] validator = "istype" -> istype(question.type)
    [] validator = "isquestion" -> isquestion(question.question)
    [] validator = "ishint" -> ishint(question.hint)
    [] validator = "isparameters" -> isparameters(question.parameters)

\* The loop of Question.isvalid from the i-th item of the order on; the
\* validator that failed is kept beside the message.
RECURSIVE isvalidFrom(_, _, _)
isvalidFrom(question, order, i) ==
  IF i > Len(order) THEN [valid |-> TRUE, message |-> None, validator |-> "none"]
  ELSE LET r == Validate(order[i], question)
       IN  IF ~r.valid
           THEN [valid |-> FALSE, message |-> r.message, validator |-> order[i]]
           ELSE isvalidFrom(question, order, i + 1)

isvalid(question, order) == isvalidFrom(question, order, 1)

-----------------------------------------------------------------------------
(* Question.__init__ *)

\* The class attributes, which an instance reads until it assigns its own.
ClassAttributes ==
  [key |-> None, type |-> None, question |-> None, hint |-> None,
   help |-> None, parameters |-> None]

\* self.type: the entry's type stripped, or None when it is not a string
TypeOf(entry) ==
  LET ty == Get(entry, S(Lit.type))
  IN  IF IsStr(ty) THEN S(strip(ty.s)) ELSE None

\* Lines 81-86 of the constructor: the fields assigned, and getparameters'
\* answer.  When getparameters raises, self.parameters is never assigned.
constructFields(key, entry) ==
  LET type == TypeOf(entry)
      before == [ClassAttributes EXCEPT
                   !.key = key,
                   !.type = type,
                   !.question = i18nify(Get(entry, S(Lit.question))),
                   !.hint = i18nify(Get(entry, S(Lit.hint)))]
      gp == getparameters(type, Get(entry, S(Lit.parameters)))
  IN  IF gp.raised
      THEN [raised |-> TRUE, self |-> before, exc |-> gp.exc]
      ELSE [raised |-> FALSE, self |-> [before EXCEPT !.parameters = gp.value],
            exc |-> None]

\* Lines 87-89 of the constructor, for one order of the validations dict.
constructValidate(self, order) ==
  LET v == isvalid(self, order)
  IN  IF ~v.valid
      THEN [status |-> "raised",
            exc |-> [exc |-> "Exception", message |-> v.message],
            validator |-> v.validator]
      ELSE [status |-> "constructed", exc |-> None, validator |-> "none"]

-----------------------------------------------------------------------------
(* The raw keys and entries a caller constructs Questions from *)

\* The texts of the keys and entries.
Txt ==
  [
    pick |-> <<"Pick", " ", "one">>,
    hello |-> <<"Hello">>,
    bogus |-> <<"bogus">>,
    padded_text |-> <<" ", "text", "\n">>,
    a |-> <<"a">>,
    ab |-> <<"ab">>,
    q1 |-> <<"q1">>,
    fr |-> <<"fr">>,
    blank |-> <<" ">>
  ]

\* The longest key of the key sweep, in tokens.
MaxKeyLen == 3

\* The tokens of the swept keys: words of letters, digits and underscores
\* (a reserved one among them), the hyphen, whitespace (the newline
\* included) and other punctuation.
KeyAlphabet == {"end", "q1", "Z_7", "-", " ", "\n", "!"}

KeyStrings ==
  {s \in UNION {[1..n -> KeyAlphabet] : n \in 0..MaxKeyLen} : IsTokenized(s)}

\* Every key of the sweep: the strings, the long reserved keys, and keys
\* that are not strings.
SweepKeys ==
  {S(s) : s \in KeyStrings}
  \cup {S(Lit.photoAccessible), S(Lit.photoVisible), None, I(7)}

\* The keys the entries are combined with.
EntryKeys == {S(Txt.q1), S(Lit.end), None}

\* A field the entry does not have.
Absent == [t |-> "absent"]

TypeInputs ==
  {Absent, I(5), S(Txt.bogus), S(Txt.padded_text),
   S(Lit.select), S(Lit.dropdown_list), S(Lit.custom),
   S(Lit.single_choice), S(Lit.textarea)}

\* Every type name the source knows, for the type sweep.
SweepTypes == types \cup DOMAIN deprecated

QuestionInputs ==
  {Absent,
   D(S(Lit.en) :> S(Txt.pick)),
   D(S(Lit.en) :> S(<<>>)),
   D(S(Lit.en) :> S(Txt.blank)),
   S(Txt.pick),
   L(<<S(Txt.hello)>>)}

HintInputs ==
  {Absent, D(S(Lit.en) :> S(Txt.hello)), D(S(Lit.en) :> S(Txt.blank))}

ParameterInputs ==
  {Absent,
   EmptyDict,
   D(S(Lit.options) :> L(<<S(Txt.a), S(Txt.ab)>>)),
   D(S(Lit.maxlength) :> I(64)),
   D(S(Lit.maxlength) :> None),
   D(S(Lit.prompt) :> D(S(Lit.en) :> S(Txt.pick)) @@ S(Lit.size) :> None),
   L(<<>>),
   L(<<I(0)>>),
   L(<<I(1)>>),
   L(<<S(Txt.a)>>),
   S(<<>>),
   S(Txt.ab),
   I(5)}

\* The entry with the fields given, the absent ones left out.
Entry(ty, q, h, p) ==
  LET fields == (S(Lit.type) :> ty) @@ (S(Lit.question) :> q)
                @@ (S(Lit.hint) :> h) @@ (S(Lit.parameters) :> p)
  IN  [k \in {f \in DOMAIN fields : fields[f] # Absent} |-> fields[k]]

ValidQuestion == D(S(Lit.en) :> S(Txt.pick))

\* The inputs: every combination of the field inputs under a few keys, every
\* type name under a valid key, and every key of the sweep with an entry that
\* is valid apart from its key.
QuestionInputSet ==
  {<<k, Entry(ty, q, h, p)>> :
     k \in EntryKeys, ty \in TypeInputs, q \in QuestionInputs,
     h \in HintInputs, p \in ParameterInputs}
  \cup {<<S(Txt.q1), Entry(ty, ValidQuestion, Absent, p)>> :
          ty \in SweepTypes, p \in {Absent, D(S(Lit.maxlength) :> I(64))}}
  \cup {<<k, Entry(ty, ValidQuestion, Absent, Absent)>> :
          k \in SweepKeys, ty \in {S(Lit.select), S(Lit.custom)}}

NotConstructed == [status |-> "new", exc |-> None, validator |-> "none"]

InitParamsIdle ==
  /\ p_results = <<>>
  /\ p_expected = <<>>
  /\ p_last = [called |-> FALSE]
  /\ p_mutations = 0

InitHtmlIdle ==
  /\ h_cfg = None
  /\ h_project = None
  /\ h_fs = <<>>
  /\ h_dir = FALSE
  /\ h_call = [called |-> FALSE]

InitQuestionIdle ==
  /\ q_key = None
  /\ q_entry = <<>>
  /\ q_self = ClassAttributes
  /\ q_result = NotConstructed

InitTable ==
  /\ default_parameters = InitialDefaultParameters
  /\ objs = InitialObjs

InitQuestion ==
  /\ InitTable
  /\ \E in \in QuestionInputSet : q_key = in[1] /\ q_entry = in[2]
  /\ q_self = ClassAttributes
  /\ q_result = NotConstructed
  /\ InitParamsIdle
  /\ InitHtmlIdle

\* Question(key, entry): the whole constructor.
Construct ==
  /\ q_result.status = "new"
  /\ LET c == constructFields(q_key, q_entry)
     IN  /\ q_self' = c.self
         /\ IF c.raised
            THEN q_result' = [status |-> "raised", exc |-> c.exc, validator |-> "none"]
            ELSE \E order \in ValidationOrders :
                   q_result' = constructValidate(c.self, order)
  /\ UNCHANGED <<q_key, q_entry, default_parameters, objs>>
  /\ UNCHANGED p_vars
  /\ UNCHANGED h_vars

NextQuestion == Construct

SpecQuestion == InitQuestion /\ [][NextQuestion]_vars

-----------------------------------------------------------------------------
(* What the constructor is claimed to do *)

Constructed == q_result.status = "constructed"

Raised == q_result.status = "raised"

\* The constructor failed with the message m of a validator.
RaisedMessage(m) ==
  Raised /\ q_result.exc = [exc |-> "Exception", message |-> m]

\* The raw fields of the entry, as the validators will see them.
RawQuestion == i18nify(Get(q_entry, S(Lit.question)))

RawHint == i18nify(Get(q_entry, S(Lit.hint)))

RawParameters == Get(q_entry, S(Lit.parameters))

QuestionPresentAndValid == RawQuestion # None /\ isquestion(RawQuestion).valid

ParametersAbsentOrMapping == RawParameters = None \/ IsDict(RawParameters)

\* C1: an entry whose type is not recognized (under a valid key, so that no
\* earlier rule is violated) fails with the type validator's own message:
\* the replacement for a deprecated alias, "not recognized" otherwise.
C1_TypeErrorReported ==
  (q_result.status # "new" /\ iskey(q_key).valid /\ TypeOf(q_entry) \notin types)
    => RaisedMessage(istype(TypeOf(q_entry)).message)

\* The fixed order of the rules.
RuleOrder == <<"iskey", "istype", "isquestion", "ishint", "isparameters">>

\* The first rule of RuleOrder the question violates.
FirstViolated(question) ==
  LET bad == {i \in 1..5 : ~Validate(RuleOrder[i], question).valid}
  IN  RuleOrder[CHOOSE i \in bad : \A j \in bad : i <= j]

\* C2: when the validators are run and at least one rule is violated, the
\* failure reported is that of the first violated rule in the order key,
\* type, question, hint, parameters.
C2_FirstViolatedRuleReported ==
  (Raised /\ q_result.validator # "none")
    => /\ q_result.validator = FirstViolated(q_self)
       /\ q_result.exc.message = Validate(FirstViolated(q_self), q_self).message

\* The user's entries with a value other than None.
NonNullEntries(u) ==
  IF u = None THEN <<>>
  ELSE [k \in {x \in DOMAIN Content(u) : Content(u)[x] # None} |-> Content(u)[k]]

\* C5: an entry of type custom with a valid key, a valid question, a valid or
\* absent hint and valid or absent parameters is constructed, its parameters
\* being the user's non-null entries; and the type of an entry that istype
\* accepts has an entry in the default-parameter table.
C5_CustomIsConstructed ==
  /\ (q_result.status # "new" /\ TypeOf(q_entry) = S(Lit.custom)
      /\ iskey(q_key).valid /\ QuestionPresentAndValid
      /\ ishint(RawHint).valid /\ ParametersAbsentOrMapping)
       => (Constructed /\ q_self.parameters = D(NonNullEntries(RawParameters)))
  /\ (q_result.status # "new" /\ istype(TypeOf(q_entry)).valid)
       => TypeOf(q_entry) \in DOMAIN default_parameters

\* C6: an entry without a question, its key, type, hint and parameters being
\* valid, fails with a question-text error.
C6_QuestionMustBePresent ==
  (q_result.status # "new" /\ S(Lit.question) \notin DOMAIN q_entry
   /\ iskey(q_key).valid /\ TypeOf(q_entry) \in DOMAIN default_parameters
   /\ ishint(RawHint).valid /\ ParametersAbsentOrMapping)
    => (Raised /\ q_result.validator = "isquestion")

\* C7: an entry whose parameters are present and not a mapping, its key, type
\* and question being valid, fails with the parameters-shape error.
C7_ParametersMustBeMapping ==
  (q_result.status # "new" /\ S(Lit.parameters) \in DOMAIN q_entry
   /\ ~IsDict(RawParameters) /\ RawParameters # None
   /\ iskey(q_key).valid /\ TypeOf(q_entry) \in DOMAIN default_parameters
   /\ QuestionPresentAndValid /\ ishint(RawHint).valid)
    => RaisedMessage([id |-> "parameters-not-a-dictionary"])

\* The key rule, stated on the characters: a non-empty string over
\* [A-Za-z0-9_-] that is not reserved.  A token is made of such characters
\* when it is the hyphen or a word.
KeyChars(token) == token = "-" \/ (token \notin Whitespace /\ token \notin Punctuation)

ReservedKeys == {S(Lit.end), S(Lit.photoAccessible), S(Lit.photoVisible)}

KeyRuleMessage(k) ==
  IF ~IsStr(k) \/ k.s = <<>> THEN [id |-> "key-not-a-non-empty-string"]
  ELSE IF \E i \in 1..Len(k.s) : ~KeyChars(k.s[i])
  THEN [id |-> "key-illegal-character", key |-> k]
  ELSE IF k \in ReservedKeys THEN [id |-> "key-reserved", key |-> k]
  ELSE None

\* iskey alone: it answers as the key rule says, message included.
IsKeyFollowsKeyRule ==
  /\ iskey(q_key).valid <=> KeyRuleMessage(q_key) = None
  /\ iskey(q_key).message = KeyRuleMessage(q_key)

\* C8: iskey succeeds exactly on the non-empty strings over [A-Za-z0-9_-]
\* that are not reserved, with the message of the rule violated; and
\* constructing with the key "end" fails with the reserved-key error when
\* all the other fields are valid.
C8_KeyRule ==
  /\ IsKeyFollowsKeyRule
  /\ (q_result.status # "new" /\ q_key = S(Lit.end)
      /\ istype(TypeOf(q_entry)).valid /\ QuestionPresentAndValid
      /\ ishint(RawHint).valid /\ ParametersAbsentOrMapping)
       => RaisedMessage([id |-> "key-reserved", key |-> S(Lit.end)])

-----------------------------------------------------------------------------
(* Callers of getparameters, who keep and change what it returns *)

\* How many mappings the callers hold.
MaxCalls == 2

\* How many writes the callers make.
MaxMutations == 2

\* The address of the dict object the caller of the n-th call owns.
UserAddr(n) == [owner |-> "user", call |-> n]

UserObject == (S(Lit.en) :> S(Txt.pick))

\* The types getparameters is called with: the recognized ones and an alias.
CallTypes == types \cup {S(Lit.single_choice)}

\* The user defaults of the n-th call.
UserDefaults(n) ==
  {None,
   D(S(Lit.maxlength) :> I(64)),
   D(S(Lit.maxlength) :> None),
   D(S(Lit.prompt) :> Ref(UserAddr(n)) @@ S(Lit.placeholder) :> None)}

\* The keys and values callers write into a mapping they hold.
MutationKeys == {S(Lit.size), S(Lit.prompt)}

MutationValues == {None, I(0)}

\* The languages and texts callers write into a nested language map.
MutationLanguages == {S(Lit.en), S(Txt.fr)}

MutationText == S(Txt.hello)

\* getparameters(type, defaults) called; the caller keeps the result.
GetParameters ==
  /\ Len(p_results) < MaxCalls
  /\ \E type \in CallTypes, defaults \in UserDefaults(Len(p_results) + 1) :
       LET heap == objs @@ (UserAddr(Len(p_results) + 1) :> UserObject)
           r == getparameters(type, defaults)
           \* the argument's value at the time of the call
           arg == IF defaults = None THEN None ELSE D(DeepDictIn(heap, defaults.d))
       IN  /\ objs' = heap
           /\ IF r.raised
              THEN /\ p_last' = [called |-> TRUE, type |-> type, defaults |-> arg,
                                 raised |-> TRUE, exc |-> r.exc]
                   /\ UNCHANGED <<p_results, p_expected>>
              ELSE /\ p_last' = [called |-> TRUE, type |-> type, defaults |-> arg,
                                 raised |-> FALSE,
                                 value |-> DeepDictIn(heap, r.value.d)]
                   /\ p_results' = Append(p_results, r.value.d)
                   /\ p_expected' = Append(p_expected, DeepDictIn(heap, r.value.d))
  /\ UNCHANGED <<default_parameters, p_mutations>>
  /\ UNCHANGED q_vars
  /\ UNCHANGED h_vars

\* A caller assigns result[k] = v in the mapping it holds.
MutateEntry ==
  /\ p_mutations < MaxMutations
  /\ \E i \in 1..Len(p_results), k \in MutationKeys, v \in MutationValues :
       LET new == Put(p_results[i], k, v)
       IN  /\ p_results' = [p_results EXCEPT ![i] = new]
           /\ p_expected' = [p_expected EXCEPT ![i] = DeepDictIn(objs, new)]
  /\ p_mutations' = p_mutations + 1
  /\ UNCHANGED <<default_parameters, objs, p_last>>
  /\ UNCHANGED q_vars
  /\ UNCHANGED h_vars

\* A caller assigns result[k][lang] = text in a language map of its mapping.
MutateNested ==
  /\ p_mutations < MaxMutations
  /\ \E i \in 1..Len(p_results), lang \in MutationLanguages :
     \E k \in {x \in DOMAIN p_results[i] : p_results[i][x].t = "ref"} :
       LET a == p_results[i][k].a
           heap == [objs EXCEPT ![a] = Put(@, lang, MutationText)]
       IN  /\ objs' = heap
           /\ p_expected' = [p_expected EXCEPT ![i] = DeepDictIn(heap, p_results[i])]
  /\ p_mutations' = p_mutations + 1
  /\ UNCHANGED <<default_parameters, p_results, p_last>>
  /\ UNCHANGED q_vars
  /\ UNCHANGED h_vars

InitParams ==
  /\ InitTable
  /\ InitQuestionIdle
  /\ InitParamsIdle
  /\ InitHtmlIdle

NextParams == GetParameters \/ MutateEntry \/ MutateNested

SpecParams == InitParams /\ [][NextParams]_vars

\* C3: whatever the callers do to the mappings they were given, the default
\* table keeps its initial value, and each mapping is what its own caller
\* last saw or wrote.
C3_DefaultsNeverShared ==
  /\ DeepTable = InitialDeepTable
  /\ \A j \in 1..Len(p_results) : DeepDict(p_results[j]) = p_expected[j]

\* The defaults of a type as the table of types and defaults lists them.
DefaultsOf(ty) ==
  IF ty = S(Lit.custom) THEN <<>> ELSE InitialDeepTable[ty]

\* The defaults of ty overridden by the non-null entries of u.
Merged(ty, u) ==
  LET over == IF u = None THEN <<>>
              ELSE [k \in {x \in DOMAIN u.d : u.d[x] # None} |-> u.d[k]]
  IN  [k \in (DOMAIN DefaultsOf(ty)) \cup (DOMAIN over) |->
         IF k \in DOMAIN over THEN over[k] ELSE DefaultsOf(ty)[k]]

\* C4: for a recognized type, getparameters returns the type's defaults
\* overridden by the user's non-null entries; a null entry changes nothing.
C4_MergeOfDefaults ==
  (p_last.called /\ p_last.type \in types)
    => (~p_last.raised /\ p_last.value = Merged(p_last.type, p_last.defaults))

-----------------------------------------------------------------------------
(* helper.generate_html *)

\* The keys of a configuration set that generate_html names, and one it does not.
HtmlLit ==
  [
    project |-> <<"project">>,
    name |-> <<"name">>,
    short_name |-> <<"short_name">>,
    description |-> <<"description">>,
    tutorial |-> <<"tutorial">>,
    task_presenter |-> <<"task_presenter">>,
    why |-> <<"why">>
  ]

\* The files generate_html writes at the path, by the name of the output.
output ==
  [task_presenter |-> "template.html",
   tutorial |-> "tutorial.html",
   results |-> "results.html"]

Files == {output.task_presenter, output.tutorial, output.results}

NoFile == [file |-> FALSE]

File(data) == [file |-> TRUE, data |-> data]

\* os.path.isfile(f)
isfile(fs, f) == fs[f].file

\* to_json_string(configuration_set), of geotagx_formatter: the text that
\* serializes the value.
to_json_string(v) == [t |-> "json", of |-> v]

\* open(f, "w").close(): the file exists and is empty.
EmptyText == S(<<>>)

\* A variant that looks only for the two files the error message names.
OverwriteRefusedSkippingResults(overwrite, fs) ==
  /\ ~overwrite
  /\ \E f \in {output.task_presenter, output.tutorial} : isfile(fs, f)

\* not overwrite and any(os.path.isfile(f) for f in output.values())
OverwriteRefused(overwrite, fs) ==
  /\ ~overwrite
  /\ \E f \in Files : isfile(fs, f)

\* project_configuration.pop(key, None) for each of name, short_name, description
StripProject(project) ==
  [k \in (DOMAIN project) \ {S(HtmlLit.name), S(HtmlLit.short_name),
                             S(HtmlLit.description)} |-> project[k]]

\* configuration_set.pop("tutorial", None)
PopTutorial(cfg) == [k \in (DOMAIN cfg) \ {S(HtmlLit.tutorial)} |-> cfg[k]]

\* Lines 75-127 for a dict configuration_set: the exception raised, or the
\* configuration set, the project dict object and the files when it returns.
\* verdict is the answer of geotagx_validator's is_configuration_set.
generate_html(cfg, fs, dir, overwrite, verdict) ==
  IF ~verdict THEN Raise([exc |-> "ValueError"])
  ELSE IF ~dir THEN Raise([exc |-> "IOError", why |-> "not a writable directory"])
  ELSE IF OverwriteRefused(overwrite, fs)
  THEN Raise([exc |-> "IOError", why |-> "already generated"])
  ELSE IF S(HtmlLit.project) \notin DOMAIN cfg
  THEN Raise(KeyError(S(HtmlLit.project)))
  ELSE
    LET old_project_configuration == cfg[S(HtmlLit.project)]
        \* the project dict is changed in place: the configuration set sees it
        stripped == D(StripProject(old_project_configuration.d))
        cfg1 == [cfg EXCEPT ![S(HtmlLit.project)] = stripped]
        fs1 == [fs EXCEPT ![output.results] = File(EmptyText)]
        hasTutorial == S(HtmlLit.tutorial) \in DOMAIN cfg1
        fs2 == [fs1 EXCEPT ![output.tutorial] =
                  IF hasTutorial THEN File(to_json_string(D(cfg1)))
                  ELSE File(EmptyText)]
        cfg2 == IF hasTutorial THEN PopTutorial(cfg1) ELSE cfg1
        fs3 == [fs2 EXCEPT ![output.task_presenter] = File(to_json_string(D(cfg2)))]
        \* configuration_set["project"] = old_project_configuration
        cfg3 == [cfg2 EXCEPT ![S(HtmlLit.project)] = old_project_configuration]
    IN  Return([cfg |-> cfg3, project |-> stripped, fs |-> fs3])

\* The project configurations and configuration sets callers pass.
Projects ==
  {D(S(HtmlLit.name) :> S(Txt.pick) @@ S(HtmlLit.short_name) :> S(Txt.a)
     @@ S(HtmlLit.description) :> S(Txt.hello)),
   D(S(HtmlLit.name) :> S(Txt.pick) @@ S(HtmlLit.short_name) :> S(Txt.a)
     @@ S(HtmlLit.description) :> S(Txt.hello) @@ S(HtmlLit.why) :> S(Txt.ab)),
   D(S(HtmlLit.name) :> S(Txt.pick))}

TaskPresenter == D(S(Lit.question) :> S(Txt.pick))

Tutorial == D(S(Lit.hint) :> S(Txt.hello))

ConfigurationSets ==
  {D(S(HtmlLit.project) :> p @@ S(HtmlLit.task_presenter) :> TaskPresenter) :
     p \in Projects}
  \cup {D(S(HtmlLit.project) :> p @@ S(HtmlLit.task_presenter) :> TaskPresenter
          @@ S(HtmlLit.tutorial) :> Tutorial) : p \in Projects}
  \cup {D(S(HtmlLit.task_presenter) :> TaskPresenter), L(<<>>)}

\* What a file at the path holds before any call.
OldFiles == {NoFile, File(EmptyText), File(S(Txt.hello))}

\* helper.py does not import the Question class: its table is not there.
InitTableIdle ==
  /\ default_parameters = <<>>
  /\ objs = <<>>

InitHtml ==
  /\ InitTableIdle
  /\ InitQuestionIdle
  /\ InitParamsIdle
  /\ h_cfg \in ConfigurationSets
  /\ h_project = None
  /\ h_fs \in [Files -> OldFiles]
  /\ h_dir \in BOOLEAN
  /\ h_call = [called |-> FALSE]

\* generate_html(configuration_set, path, overwrite, compress): the whole call.
GenerateHtml ==
  /\ \E overwrite \in BOOLEAN, compress \in BOOLEAN, verdict \in BOOLEAN :
       LET call == [called |-> TRUE, overwrite |-> overwrite, compress |-> compress,
                    verdict |-> verdict, cfg |-> h_cfg, fs |-> h_fs, dir |-> h_dir]
       IN  IF ~IsDict(h_cfg)
           THEN \* check_arg_type(generate_html, "configuration_set", ...)
                /\ h_call' = [call EXCEPT !.verdict = FALSE] @@ [outcome |-> "TypeError"]
                /\ UNCHANGED <<h_cfg, h_project, h_fs>>
           ELSE LET r == generate_html(h_cfg.d, h_fs, h_dir, overwrite, verdict)
                IN  IF r.raised
                    THEN /\ h_call' = call @@ [outcome |-> r.exc.exc]
                         /\ UNCHANGED <<h_cfg, h_project, h_fs>>
                    ELSE /\ h_call' = call @@ [outcome |-> "returned"]
                         /\ h_cfg' = D(r.value.cfg)
                         /\ h_project' = r.value.project
                         /\ h_fs' = r.value.fs
  /\ UNCHANGED <<h_dir, default_parameters, objs>>
  /\ UNCHANGED q_vars
  /\ UNCHANGED p_vars

NextHtml == GenerateHtml

SpecHtml == InitHtml /\ [][NextHtml]_vars

\* C9: when generate_html returns, the caller's configuration set has the
\* keys and values it had before the call.
C9_ConfigurationRestored ==
  (h_call.called /\ h_call.outcome = "returned") => h_cfg = h_call.cfg

\* The call met one of the three rejections.
Rejected(call) ==
  \/ ~call.verdict
  \/ ~call.dir
  \/ (~call.overwrite /\ \E f \in Files : call.fs[f].file)

\* C10: an invalid configuration set is refused with ValueError, a path that
\* is not a writable directory or, without overwrite, an existing generated
\* file with IOError, in each case with the files and the configuration set
\* as they were; and a file that existed is changed only under overwrite.
C10_RejectionsBeforeEffects ==
  (h_call.called /\ IsDict(h_call.cfg))
    => /\ Rejected(h_call)
            => /\ h_call.outcome = (IF ~h_call.verdict THEN "ValueError" ELSE "IOError")
               /\ h_fs = h_call.fs
               /\ h_cfg = h_call.cfg
       /\ \A f \in Files :
            (h_call.fs[f].file /\ h_fs[f] # h_call.fs[f]) => h_call.overwrite

\* A call without overwrite was refused because a generated file existed.
C10_Witness ==
  /\ h_call.called
  /\ h_call.outcome = "IOError"
  /\ h_call.verdict /\ h_call.dir /\ ~h_call.overwrite
  /\ h_call.fs[output.results].file
  /\ ~h_call.fs[output.task_presenter].file
  /\ ~h_call.fs[output.tutorial].file

====
